---- MODULE Spec2Model ----
(***************************************************************************)
(* FanPulse gateway test harness (src/tests/test_harness.py).              *)
(*                                                                         *)
(* Two state machines share the module:                                    *)
(*   Spec      GatewayTestSuite.run_all_tests: the eight categories, the   *)
(*             single-event prober and the gateway they talk to;           *)
(*   SpecLoad  LoadTester.run_load_test: the main thread, the U workers of *)
(*             _user_load_test and the wall clock.                         *)
(*                                                                         *)
(* Time is in milliseconds.  Floats of the source are scaled integers      *)
(* (peakDb in 1/100 dB, signalQuality in 1/1000, ...); quotients are kept  *)
(* exact as records [num, den].                                            *)
(***************************************************************************)
EXTENDS Integers, Sequences, FiniteSets, TLC

\* ------------------------------------------------------------------ bounds
\* Deviations of the gateway from its contract (wrong status, transport
\* failure, bad body) that the environment may inject in one suite run.
MaxFaults == 1
\* Messages the streaming channel may deliver during one observation.
MaxWsMsgs == 2
\* Simulated users of a load run.
MaxUsers == 2
\* Calls of run_load_test on one LoadTester.
MaxRuns == 2
\* Results in a collection handed to the reporter.
MaxResults == 3
\* Granularity of random.uniform draws: u/UnitSteps for u in 0..UnitSteps.
UnitSteps == 2

\* ------------------------------------------------------------ sample values
\* Load run: run durations, round-trip times and delays before a submitted
\* task starts running, in ms.
DurationsMs == {0, 2}
LatenciesMs == {1, 2}
StartDelaysMs == {0, 1}

\* --------------------------------------------------------- program constants
AcceptedStatus == 202
OkStatus == 200
SmallDelayMs == 100
WsSettleMs == 1000
WsObserveMs == 2000
BatchEventsCount == 5
BatchMatchId == 99999
NumCategories == 8
\* Time one HTTP round trip of the suite takes in the model.
RequestMs == 1

VARIABLES
    \* ---- GatewayTestSuite
    results,      \* self.results: sequence of TestResult
    cat,          \* index into test_categories of run_all_tests; 9 = returned
    step,         \* 0 = test_method not yet called; k = k-1 steps of it done
    held,         \* events held in locals of the running test method
    probe,        \* frame of the latest _test_single_event call: arguments,
                  \* response, returned value, and the number of calls so far
    invoked,      \* how many times each test method was called
    raised,       \* categories whose test method raised into run_all_tests
    ws,           \* test_websocket: [started, open, msgs, status]
    \* ---- environment of the suite
    now,          \* wall clock, ms
    gwSeen,       \* (deviceId, ts) keys the gateway has accepted
    wire,         \* requests of the running category: [payload, out, conf]
    faultsLeft,   \* deviations the gateway may still make
    raiseAt,      \* per category: 0, or the step at which its test method
                  \* hits an unexpected exception
    \* ---- LoadTester
    config,       \* TestConfig of the load run: [users, duration (ms)]
    lpc,          \* run_load_test: "idle", "collect", "done" or "raised"
    start_time,   \* run_load_test: start_time
    lt_results,   \* self.results: latencies merged so far
    lt_errors,    \* self.errors
    metrics,      \* the LoadTestMetrics returned (NoMetrics before)
    worker,       \* per user_id: the frame of its _user_load_test call
    \* ---- environment of the load run: what the gateway saw
    attempts,     \* submissions received
    stamped,      \* the ts values of the events received
    collided,     \* some event arrived with a ts seen before in this run
    accepted,     \* submissions answered 202
    failed,       \* submissions answered otherwise, or lost in transport
    \* ---- beyond one suite run and one load run
    run,          \* which run_load_test call on this LoadTester: 1, 2, ...
    report,       \* what the latest generate_report call returned
    previous,     \* what the generate_report call before it returned
    gen,          \* what the latest TestDataGenerator call returned
    quick         \* run_tests.py: the frame of run_quick_test and the exit
                  \* status of main

suiteVars == <<results, cat, step, held, probe, invoked, raised, ws>>
envVars == <<now, gwSeen, wire, faultsLeft, raiseAt>>
loadEnv == <<attempts, stamped, collided, accepted, failed>>
restVars == <<run, report, previous, gen, quick>>
loadVars == <<config, lpc, start_time, lt_results, lt_errors, metrics,
              worker, attempts, stamped, collided, accepted, failed>>
vars == <<results, cat, step, held, probe, invoked, raised, ws,
          now, gwSeen, wire, faultsLeft, raiseAt,
          config, lpc, start_time, lt_results, lt_errors, metrics,
          worker, attempts, stamped, collided, accepted, failed,
          run, report, previous, gen, quick>>

\* ------------------------------------------------------------- small helpers
Last(s) == s[Len(s)]

IsPrefix(s, t) == Len(s) <= Len(t) /\ SubSeq(t, 1, Len(s)) = s

Range(s) == {s[i] : i \in 1..Len(s)}

\* ---------------------------------------------------------------- TestConfig
DeviceId == "B43A45A16938"

\* ------------------------------------------------------------ data generator
Tiers == {"bronze", "silver", "gold"}

\* peak_db_ranges, in 1/100 dB
PeakDbLow(tier) ==
    CASE tier = "bronze" -> -3000 [] tier = "silver" -> -2500 [] OTHER -> -2000

\* peak_db_ranges with the upper end of gold for every tier
PeakDbHighGold(tier) == -1000

PeakDbHigh(tier) ==
    CASE tier = "bronze" -> -2000 [] tier = "silver" -> -1500 [] OTHER -> -1000

\* random.uniform(a, b) with the draw u/UnitSteps, rounded to the scale unit
Uniform(a, b, u) == a + ((b - a) * u) \div UnitSteps

\* One outcome of the random module for one call of generate_valid_event.
Draws ==
    [tier : Tiers, uPeak : 0..UnitSteps, matchId : {1, 99999},
     durationMs : {2000, 30000}, chant : BOOLEAN,
     uSq : 0..UnitSteps, uDc : 0..UnitSteps, uFp : 0..UnitSteps,
     uBn : 0..UnitSteps]

\* The draws the suite and the load run are explored with.
SuiteDraws ==
    {[tier |-> "bronze", uPeak |-> 0, matchId |-> 1, durationMs |-> 2000,
      chant |-> TRUE, uSq |-> 0, uDc |-> 0, uFp |-> 0, uBn |-> 0],
     [tier |-> "gold", uPeak |-> UnitSteps, matchId |-> 99999,
      durationMs |-> 30000, chant |-> FALSE, uSq |-> UnitSteps,
      uDc |-> UnitSteps, uFp |-> UnitSteps, uBn |-> UnitSteps]}

generate_valid_event(device_id, t, d) ==
    [deviceId |-> device_id,
     matchId |-> d.matchId,
     tier |-> d.tier,
     peakDb |-> Uniform(PeakDbLow(d.tier), PeakDbHigh(d.tier), d.uPeak),
     durationMs |-> d.durationMs,
     ts |-> t,
     chantDetected |-> d.chant,
     signalQuality |-> Uniform(500, 1000, d.uSq),
     detectionConfidence |-> Uniform(600, 950, d.uDc),
     frequencyPeak |-> Uniform(2000, 15000, d.uFp),
     backgroundNoise |-> Uniform(-6000, -4000, d.uBn)]

MissingField == "<missing>"

\* generate_invalid_events with the tier variant built on the dict of the
\* variant before it instead of a fresh copy of the base
InvalidVariantsAliased(base) ==
    << [event |-> [base EXCEPT !.deviceId = MissingField],
        reason |-> "Missing deviceId"],
       [event |-> [base EXCEPT !.deviceId = "INVALID123"],
        reason |-> "Invalid deviceId format"],
       [event |-> [base EXCEPT !.deviceId = "INVALID123",
                               !.tier = "platinum"],
        reason |-> "Invalid tier"],
       [event |-> [base EXCEPT !.peakDb = 5000],
        reason |-> "dB out of range"],
       [event |-> [base EXCEPT !.durationMs = -1000],
        reason |-> "Negative duration"],
       [event |-> [base EXCEPT !.signalQuality = 1500],
        reason |-> "Signal quality out of range"] >>

\* generate_invalid_events: the catalogue of (variant, label) pairs built
\* from one base event
InvalidVariants(base) ==
    << [event |-> [base EXCEPT !.deviceId = MissingField],
        reason |-> "Missing deviceId"],
       [event |-> [base EXCEPT !.deviceId = "INVALID123"],
        reason |-> "Invalid deviceId format"],
       [event |-> [base EXCEPT !.tier = "platinum"],
        reason |-> "Invalid tier"],
       [event |-> [base EXCEPT !.peakDb = 5000],
        reason |-> "dB out of range"],
       [event |-> [base EXCEPT !.durationMs = -1000],
        reason |-> "Negative duration"],
       [event |-> [base EXCEPT !.signalQuality = 1500],
        reason |-> "Signal quality out of range"] >>

generate_invalid_events(t, d) ==
    InvalidVariants(generate_valid_event(DeviceId, t, d))

\* f"invalid_event_{i}_{reason.replace(' ', '_')}" for the i-th variant
\* (i counted from 1 here, from 0 in the name)
InvalidEventName(i) ==
    CASE i = 1 -> "invalid_event_0_Missing_deviceId"
      [] i = 2 -> "invalid_event_1_Invalid_deviceId_format"
      [] i = 3 -> "invalid_event_2_Invalid_tier"
      [] i = 4 -> "invalid_event_3_dB_out_of_range"
      [] i = 5 -> "invalid_event_4_Negative_duration"
      [] OTHER -> "invalid_event_5_Signal_quality_out_of_range"

\* ------------------------------------------------- the gateway (black box)
\* An outcome of one HTTP request as the harness sees it: a response with a
\* status and a body ("ok": JSON/text with everything the check looks for,
\* "deficient": parseable but lacking it, "garbage": not parseable), or a
\* transport failure (timeout, connection refused).
Resp(s, b) == [kind |-> "resp", status |-> s, body |-> b]

Exc == [kind |-> "exc", status |-> 0, body |-> "none"]

Statuses == {200, 202, 399, 400, 499, 500}

FaultOutcomes ==
    {Exc} \cup {Resp(s, "ok") : s \in Statuses}
          \cup {Resp(200, "deficient"), Resp(200, "garbage"),
                Resp(202, "garbage")}

JsonPost(e) == [kind |-> "json", event |-> e]

RawPost(body, ctype) == [kind |-> "raw", body |-> body, ctype |-> ctype]

Get(path) == [kind |-> "get", path |-> path]

Key(e) == <<e.deviceId, e.ts>>

AuthorizedDevices == {DeviceId}

\* Event field constraints the gateway enforces
ValidEvent(e) ==
    /\ e.deviceId \in {DeviceId, "UNAUTHORIZED1"}
    /\ e.tier \in Tiers
    /\ e.peakDb >= -10000 /\ e.peakDb <= 0
    /\ e.durationMs >= 0
    /\ e.signalQuality >= 0 /\ e.signalQuality <= 1000

\* What a gateway honouring its contract answers to a request, given the
\* keys it has accepted so far.
Conforming(req, seen) ==
    CASE req.kind = "get" -> Resp(200, "ok")
      [] req.kind = "raw" -> Resp(400, "ok")
      [] OTHER ->
           IF ~ValidEvent(req.event) THEN Resp(400, "ok")
           ELSE IF req.event.deviceId \notin AuthorizedDevices
                THEN Resp(403, "ok")
           ELSE IF Key(req.event) \in seen THEN Resp(409, "ok")
           ELSE Resp(202, "ok")

\* The outcomes the environment may produce for a request now.
Outcomes(req) ==
    {Conforming(req, gwSeen)}
        \cup (IF faultsLeft > 0 THEN FaultOutcomes ELSE {})

\* One request/response exchange followed by `pause` ms of sleep.
Exchange(req, out, pause) ==
    /\ out \in Outcomes(req)
    /\ faultsLeft' = IF out = Conforming(req, gwSeen) THEN faultsLeft
                     ELSE faultsLeft - 1
    /\ gwSeen' = IF req.kind = "json" /\ out.kind = "resp"
                    /\ out.status = AcceptedStatus
                 THEN gwSeen \cup {Key(req.event)} ELSE gwSeen
    /\ wire' = Append(wire, [req |-> req, out |-> out,
                             conf |-> Conforming(req, gwSeen)])
    /\ now' = now + RequestMs + pause

\* ------------------------------------------------------ single-event prober
TestResult(name, passed, duration, err, data) ==
    [test_name |-> name, passed |-> passed, duration_ms |-> duration,
     error_message |-> err, response_data |-> data]

NoProbe ==
    [test_name |-> "", should_pass |-> FALSE, out |-> Exc, ret |-> FALSE,
     calls |-> 0]

\* Mutant of Verdict: the expected verdict is ignored
VerdictIgnoringExpectation(should_pass, status) == status = AcceptedStatus

\* The verdict of _test_single_event on a response
Verdict(should_pass, status) ==
    IF should_pass THEN status = AcceptedStatus ELSE status # AcceptedStatus

\* Mutant of SingleEventResult: a transport failure counts as a rejection
SingleEventResultFailureAsRejection(test_name, should_pass, out) ==
    IF out.kind = "exc"
    THEN TestResult(test_name, ~should_pass, RequestMs, TRUE, FALSE)
    ELSE TestResult(test_name, Verdict(should_pass, out.status), RequestMs,
                    FALSE, out.body # "garbage")

\* The TestResult _test_single_event appends
SingleEventResult(test_name, should_pass, out) ==
    IF out.kind = "exc"
    THEN TestResult(test_name, FALSE, RequestMs, TRUE, FALSE)
    ELSE TestResult(test_name, Verdict(should_pass, out.status), RequestMs,
                    FALSE, out.body # "garbage")

\* The value _test_single_event returns
SingleEventReturn(should_pass, out) ==
    IF out.kind = "exc" THEN FALSE ELSE Verdict(should_pass, out.status)

\* _test_single_event(event_data, test_name, should_pass), then `pause` ms
TestSingleEvent(event_data, test_name, should_pass, pause) ==
    \E out \in Outcomes(JsonPost(event_data)) :
        /\ Exchange(JsonPost(event_data), out, pause)
        /\ results' = Append(results,
                             SingleEventResult(test_name, should_pass, out))
        /\ probe' = [test_name |-> test_name, should_pass |-> should_pass,
                      out |-> out,
                      ret |-> SingleEventReturn(should_pass, out),
                      calls |-> probe.calls + 1]

\* ------------------------------------------------- GatewayTestSuite: categories
\* test_categories of run_all_tests, in list order
CategoryName(c) ==
    CASE c = 1 -> "Health Check"
      [] c = 2 -> "Event Validation"
      [] c = 3 -> "Anti-Spam Protection"
      [] c = 4 -> "Batch Processing"
      [] c = 5 -> "WebSocket Communication"
      [] c = 6 -> "Performance Metrics"
      [] c = 7 -> "Error Handling"
      [] OTHER -> "API Status"

\* f"{category_name}_FATAL"
FatalName(c) ==
    CASE c = 1 -> "Health Check_FATAL"
      [] c = 2 -> "Event Validation_FATAL"
      [] c = 3 -> "Anti-Spam Protection_FATAL"
      [] c = 4 -> "Batch Processing_FATAL"
      [] c = 5 -> "WebSocket Communication_FATAL"
      [] c = 6 -> "Performance Metrics_FATAL"
      [] c = 7 -> "Error Handling_FATAL"
      [] OTHER -> "API Status_FATAL"

Categories == 1..NumCategories

\* Number of steps the test method of category c takes in this model
Steps(c) ==
    CASE c = 1 -> 1
      [] c = 2 -> 7
      [] c = 3 -> 3
      [] c = 4 -> BatchEventsCount + 2
      [] c = 5 -> 3
      [] c = 6 -> 1
      [] c = 7 -> 4
      [] OTHER -> 1

\* The test method of category c is about to do its k-th step
Running(c, k) == cat = c /\ step = k /\ raiseAt[c] # k

NoWs == [started |-> FALSE, open |-> FALSE, msgs |-> <<>>, status |-> 0]

loadUnchanged == UNCHANGED <<loadVars, restVars>>

\* The category the loop of run_all_tests moves to after category c
NextCategory(c) == c + 1

\* run_all_tests: the loop calls test_method()
CategoryCall ==
    /\ cat \in Categories /\ step = 0
    /\ step' = 1
    /\ invoked' = [invoked EXCEPT ![cat] = @ + 1]
    /\ held' = <<>> /\ wire' = <<>> /\ ws' = NoWs
    /\ UNCHANGED <<results, cat, probe, raised, now, gwSeen, faultsLeft, raiseAt>>
    /\ loadUnchanged

\* run_all_tests: test_method() returned normally; next loop iteration
CategoryReturn ==
    /\ cat \in Categories /\ step = Steps(cat) + 1
    /\ raiseAt[cat] # step
    /\ cat' = NextCategory(cat) /\ step' = 0
    /\ held' = <<>>
    /\ UNCHANGED <<results, probe, invoked, raised, ws, envVars>>
    /\ loadUnchanged

\* The result the except clause of run_all_tests records for category c
FatalResult(c) == TestResult(FatalName(c), FALSE, 0, TRUE, FALSE)

\* Mutant of RecordFatal: the synthetic result is put in front
RecordFatalFirst(rs, c) == <<FatalResult(c)>> \o rs

\* How the except clause of run_all_tests extends self.results
RecordFatal(rs, c) == Append(rs, FatalResult(c))

\* Mutant of AfterRaise: the exception ends the loop
AfterRaiseAbort(c) == NumCategories + 1

\* The category the loop moves to once the except clause has run
AfterRaise(c) == NextCategory(c)

\* run_all_tests: test_method() raised somewhere in its body; the except
\* clause records the synthetic result and the loop goes on
CategoryRaise ==
    /\ cat \in Categories /\ step >= 1
    /\ step = raiseAt[cat]
    /\ results' = RecordFatal(results, cat)
    /\ cat' = AfterRaise(cat) /\ step' = 0
    /\ raised' = raised \cup {cat}
    /\ held' = <<>>
    /\ UNCHANGED <<probe, invoked, ws, envVars>>
    /\ loadUnchanged

\* Result of a GET check that parses JSON (health, status): test_name,
\* passed iff 200 and the body has what the check looks for
JsonGetResult(name, out) ==
    IF out.kind = "exc" THEN TestResult(name, FALSE, RequestMs, TRUE, FALSE)
    ELSE IF out.status = OkStatus
         THEN IF out.body = "garbage"
              THEN TestResult(name, FALSE, RequestMs, TRUE, FALSE)
              ELSE TestResult(name, out.body = "ok", RequestMs, FALSE, TRUE)
         ELSE TestResult(name, FALSE, RequestMs, TRUE, FALSE)

\* test_health_endpoint
TestHealthEndpoint ==
    /\ Running(1, 1)
    /\ \E out \in Outcomes(Get("/health")) :
          /\ Exchange(Get("/health"), out, 0)
          /\ results' = Append(results, JsonGetResult("health_check", out))
    /\ step' = step + 1
    /\ UNCHANGED <<cat, held, probe, invoked, raised, ws, raiseAt>>
    /\ loadUnchanged

\* test_event_validation: the valid event
ValidationValid ==
    /\ Running(2, 1)
    /\ \E d \in SuiteDraws :
          TestSingleEvent(generate_valid_event(DeviceId, now, d),
                          "valid_event", TRUE, 0)
    /\ step' = step + 1
    /\ UNCHANGED <<cat, held, invoked, raised, ws, raiseAt>>
    /\ loadUnchanged

\* test_event_validation: the i-th invalid variant (the catalogue is built
\* once, before the first variant is submitted)
ValidationInvalid ==
    /\ step \in 2..7 /\ Running(2, step)
    /\ \E catalogue \in
            (IF step = 2
             THEN {generate_invalid_events(now, d) : d \in SuiteDraws}
             ELSE {held}) :
          /\ held' = catalogue
          /\ TestSingleEvent(catalogue[step - 1].event,
                             InvalidEventName(step - 1), FALSE, 0)
    /\ step' = step + 1
    /\ UNCHANGED <<cat, invoked, raised, ws, raiseAt>>
    /\ loadUnchanged

\* Mutant of ResubmittedEvent: the second submission is re-stamped
ResubmittedFresh(base_event, t) == [base_event EXCEPT !.ts = t]

\* The event test_anti_spam submits as "duplicate_test_second", given the
\* base_event it submitted as "duplicate_test_first"
ResubmittedEvent(base_event, t) == base_event

\* test_anti_spam: unauthorized device
AntiSpamUnauthorized ==
    /\ Running(3, 1)
    /\ \E d \in SuiteDraws :
          TestSingleEvent(generate_valid_event("UNAUTHORIZED1", now, d),
                          "unauthorized_device", FALSE, 0)
    /\ step' = step + 1
    /\ UNCHANGED <<cat, held, invoked, raised, ws, raiseAt>>
    /\ loadUnchanged

\* test_anti_spam: base_event generated and sent for the first time
AntiSpamFirst ==
    /\ Running(3, 2)
    /\ \E d \in SuiteDraws :
          LET base_event == generate_valid_event(DeviceId, now, d)
          IN /\ held' = <<base_event>>
             /\ TestSingleEvent(base_event, "duplicate_test_first", TRUE, 0)
    /\ step' = step + 1
    /\ UNCHANGED <<cat, invoked, raised, ws, raiseAt>>
    /\ loadUnchanged

\* test_anti_spam: sleep(0.1), then the same event again
AntiSpamSecond ==
    /\ Running(3, 3)
    /\ TestSingleEvent(ResubmittedEvent(held[1], now + SmallDelayMs),
                       "duplicate_test_second", FALSE, SmallDelayMs)
    /\ step' = step + 1
    /\ UNCHANGED <<cat, held, invoked, raised, ws, raiseAt>>
    /\ loadUnchanged

\* f"batch_event_{i}"
BatchEventName(i) ==
    CASE i = 0 -> "batch_event_0"
      [] i = 1 -> "batch_event_1"
      [] i = 2 -> "batch_event_2"
      [] i = 3 -> "batch_event_3"
      [] OTHER -> "batch_event_4"

\* The draws of the five generate_valid_event calls of one batch: the same
\* draw five times, or the two draws alternating
BatchDraws ==
    {[i \in 1..BatchEventsCount |-> d] : d \in SuiteDraws}
        \cup {[i \in 1..BatchEventsCount |->
                  IF i % 2 = 1 THEN d1 ELSE d2] :
                    d1 \in SuiteDraws, d2 \in SuiteDraws}

\* test_batch_processing: the five events, built before any is sent
BatchGenerate ==
    /\ Running(4, 1)
    /\ \E ds \in BatchDraws :
          held' = [i \in 1..BatchEventsCount |->
                      [generate_valid_event(DeviceId, now, ds[i])
                          EXCEPT !.ts = now + (i - 1),
                                 !.matchId = BatchMatchId]]
    /\ step' = step + 1
    /\ UNCHANGED <<results, cat, probe, invoked, raised, ws, envVars>>
    /\ loadUnchanged

\* test_batch_processing: one submission, then sleep(0.1)
BatchSubmit ==
    /\ step \in 2..(BatchEventsCount + 1) /\ Running(4, step)
    /\ TestSingleEvent(held[step - 1], BatchEventName(step - 2), TRUE,
                       SmallDelayMs)
    /\ step' = step + 1
    /\ UNCHANGED <<cat, held, invoked, raised, ws, raiseAt>>
    /\ loadUnchanged

\* What the status poll of test_batch_processing appends to self.results
BatchStatusResults(out, duration) ==
    IF out.kind = "resp" /\ out.status = OkStatus /\ out.body # "garbage"
    THEN <<TestResult("batch_processing_status", out.body = "ok", duration,
                      FALSE, TRUE)>>
    ELSE <<>>

\* test_batch_processing: the status poll
BatchStatus ==
    /\ Running(4, BatchEventsCount + 2)
    /\ \E out \in Outcomes(Get("/status")) :
          /\ Exchange(Get("/status"), out, 0)
          /\ results' = results \o BatchStatusResults(out, now - held[1].ts)
    /\ step' = step + 1
    /\ UNCHANGED <<cat, held, probe, invoked, raised, ws, raiseAt>>
    /\ loadUnchanged

\* test_websocket: create the WebSocketApp, start its thread, sleep(1)
WsStart ==
    /\ Running(5, 1)
    /\ ws' = [started |-> TRUE, open |-> TRUE, msgs |-> <<>>, status |-> 0]
    /\ now' = now + WsSettleMs
    /\ step' = step + 1
    /\ UNCHANGED <<results, cat, held, probe, invoked, raised, gwSeen, wire,
                   faultsLeft, raiseAt>>
    /\ loadUnchanged

\* What json.loads makes of a text frame of the channel: an object with
\* 'type' connected or event_received, or a value that is not an object
\* ("scalar": a number, a string, a list, null).  A frame that is not JSON
\* is logged and leaves no trace.
WsMessageTypes == {"connected", "event_received", "scalar"}

\* Whether the channel of a gateway honouring its contract sends message m
\* now: one acknowledgment of the connection, and one broadcast of an event
\* it has accepted.  When they arrive is up to the channel.
WsConforming(m) ==
    \/ m = "connected" /\ "connected" \notin Range(ws.msgs)
    \/ /\ m = "event_received" /\ "event_received" \notin Range(ws.msgs)
       /\ ws.status = AcceptedStatus

\* on_message of the listener thread, which runs beside the main flow from
\* ws_thread.start() on: the message is appended to websocket_results.  A
\* message the contract does not call for is one deviation of the gateway.
WsDeliver ==
    /\ cat = 5 /\ ws.started /\ Len(ws.msgs) < MaxWsMsgs
    /\ \E m \in WsMessageTypes :
          /\ WsConforming(m) \/ faultsLeft > 0
          /\ faultsLeft' = IF WsConforming(m) THEN faultsLeft
                           ELSE faultsLeft - 1
          /\ ws' = [ws EXCEPT !.msgs = Append(@, m)]
    /\ UNCHANGED <<results, cat, step, held, probe, invoked, raised,
                   now, gwSeen, wire, raiseAt>>
    /\ loadUnchanged

\* test_websocket: the HTTP submission, then sleep(2); a transport failure
\* goes to the except clause
WsPost ==
    /\ Running(5, 2)
    /\ \E d \in SuiteDraws :
       \E out \in Outcomes(JsonPost(generate_valid_event(DeviceId, now, d))) :
          /\ Exchange(JsonPost(generate_valid_event(DeviceId, now, d)), out,
                      IF out.kind = "exc" THEN 0 ELSE WsObserveMs)
          /\ IF out.kind = "exc"
             THEN /\ results' = Append(results,
                        TestResult("websocket_communication", FALSE,
                                   WsSettleMs + RequestMs, TRUE, FALSE))
                  /\ step' = Steps(5) + 1
                  /\ ws' = ws
             ELSE /\ results' = results
                  /\ step' = step + 1
                  /\ ws' = [ws EXCEPT !.status = out.status]
    /\ UNCHANGED <<cat, held, probe, invoked, raised, raiseAt>>
    /\ loadUnchanged

\* test_websocket: passed, from the messages collected and the HTTP status
WsVerdict(msgs, status) ==
    "connected" \in Range(msgs) /\ status = AcceptedStatus

\* test_websocket: ws.close(), then the evaluation; msg.get on a message
\* that is not an object raises AttributeError, which the except clause
\* turns into a failed result
WsEvaluate ==
    /\ Running(5, 3)
    /\ ws' = [ws EXCEPT !.open = FALSE]
    /\ results' = Append(results,
          IF "scalar" \in Range(ws.msgs)
          THEN TestResult("websocket_communication", FALSE,
                          WsSettleMs + RequestMs + WsObserveMs, TRUE, FALSE)
          ELSE TestResult("websocket_communication",
                          WsVerdict(ws.msgs, ws.status),
                          WsSettleMs + RequestMs + WsObserveMs, FALSE, TRUE))
    /\ step' = step + 1
    /\ UNCHANGED <<cat, held, probe, invoked, raised, envVars>>
    /\ loadUnchanged

\* Result of test_metrics_endpoint
MetricsResult(out) ==
    IF out.kind = "resp" /\ out.status = OkStatus
    THEN TestResult("metrics_endpoint", out.body = "ok", RequestMs, FALSE,
                    TRUE)
    ELSE TestResult("metrics_endpoint", FALSE, RequestMs, TRUE, FALSE)

\* test_metrics_endpoint
TestMetricsEndpoint ==
    /\ Running(6, 1)
    /\ \E out \in Outcomes(Get("/metrics")) :
          /\ Exchange(Get("/metrics"), out, 0)
          /\ results' = Append(results, MetricsResult(out))
    /\ step' = step + 1
    /\ UNCHANGED <<cat, held, probe, invoked, raised, ws, raiseAt>>
    /\ loadUnchanged

\* test_cases of test_error_handling
ErrorCase(i) ==
    CASE i = 1 -> [name |-> "error_handling_malformed_json",
                   req |-> RawPost("invalid json", "application/json")]
      [] i = 2 -> [name |-> "error_handling_empty_payload",
                   req |-> RawPost("", "application/json")]
      [] i = 3 -> [name |-> "error_handling_wrong_content_type",
                   req |-> RawPost("{\"test\": \"data\"}", "text/plain")]
      [] OTHER -> [name |-> "error_handling_oversized_payload",
                   req |-> RawPost("x * 50000", "application/json")]

\* Mutant of ErrorCaseResult: a 500 passes as well
ErrorCaseResultUpTo500(name, out) ==
    IF out.kind = "exc" THEN TestResult(name, FALSE, RequestMs, TRUE, FALSE)
    ELSE TestResult(name, 400 <= out.status /\ out.status <= 500, RequestMs,
                    FALSE, TRUE)

\* Result of one case of test_error_handling
ErrorCaseResult(name, out) ==
    IF out.kind = "exc" THEN TestResult(name, FALSE, RequestMs, TRUE, FALSE)
    ELSE TestResult(name, 400 <= out.status /\ out.status < 500, RequestMs,
                    FALSE, TRUE)

\* test_error_handling: one malformed submission
TestErrorHandling ==
    /\ step \in 1..4 /\ Running(7, step)
    /\ \E out \in Outcomes(ErrorCase(step).req) :
          /\ Exchange(ErrorCase(step).req, out, 0)
          /\ results' = Append(results,
                               ErrorCaseResult(ErrorCase(step).name, out))
    /\ step' = step + 1
    /\ UNCHANGED <<cat, held, probe, invoked, raised, ws, raiseAt>>
    /\ loadUnchanged

\* test_status_endpoint
TestStatusEndpoint ==
    /\ Running(8, 1)
    /\ \E out \in Outcomes(Get("/status")) :
          /\ Exchange(Get("/status"), out, 0)
          /\ results' = Append(results, JsonGetResult("status_endpoint", out))
    /\ step' = step + 1
    /\ UNCHANGED <<cat, held, probe, invoked, raised, ws, raiseAt>>
    /\ loadUnchanged

\* ------------------------------------------------------------ load metrics
\* A quotient num/den of the float arithmetic, kept exact
Q(n, d) == [num |-> n, den |-> d]

QEq(a, b) == a.num * b.den = b.num * a.den

QLe(a, b) == a.num * b.den <= b.num * a.den

RECURSIVE SumSeq(_)
SumSeq(s) == IF s = <<>> THEN 0 ELSE s[1] + SumSeq(Tail(s))

RECURSIVE MinSeq(_)
MinSeq(s) ==
    IF Len(s) = 1 THEN s[1]
    ELSE LET m == MinSeq(Tail(s)) IN IF s[1] < m THEN s[1] ELSE m

RECURSIVE MaxSeq(_)
MaxSeq(s) ==
    IF Len(s) = 1 THEN s[1]
    ELSE LET m == MaxSeq(Tail(s)) IN IF s[1] > m THEN s[1] ELSE m

\* x inserted into the sorted sequence s
Insert(x, s) ==
    LET k == Cardinality({i \in 1..Len(s) : s[i] <= x})
    IN SubSeq(s, 1, k) \o <<x>> \o SubSeq(s, k + 1, Len(s))

RECURSIVE Sorted(_)
\* sorted(data)
Sorted(s) == IF s = <<>> THEN <<>> ELSE Insert(s[1], Sorted(Tail(s)))

\* Mutant of Quantile95: nearest rank, the element at rank ceil(0.95 * N)
NearestRank95(data) ==
    Q(Sorted(data)[(19 * Len(data) + 19) \div 20] * 20, 20)

\* statistics.quantiles(data, n=20)[18] for len(data) >= 2: the default
\* "exclusive" method, i = 19 of n = 20
Quantile95(data) ==
    LET s == Sorted(data)
        ld == Len(s)
        m == ld + 1
        j0 == (19 * m) \div 20
        j == IF j0 < 1 THEN 1 ELSE IF j0 > ld - 1 THEN ld - 1 ELSE j0
        delta == 19 * m - j * 20
    IN Q(s[j] * (20 - delta) + s[j + 1] * delta, 20)

NoMetrics == [total_requests |-> -1]

\* Mutant of ZeroSuccessMetrics: the error rate of an all-failed run is 0
ZeroSuccessMetricsNoErrors(errs) ==
    [total_requests |-> Len(errs), successful_requests |-> 0,
     failed_requests |-> Len(errs), average_response_time |-> Q(0, 1),
     min_response_time |-> 0, max_response_time |-> 0,
     p95_response_time |-> Q(0, 1), throughput_rps |-> Q(0, 1),
     error_rate |-> Q(0, 1)]

\* run_load_test: the metrics of a run without a success (else branch)
ZeroSuccessMetrics(errs) ==
    [total_requests |-> Len(errs), successful_requests |-> 0,
     failed_requests |-> Len(errs), average_response_time |-> Q(0, 1),
     min_response_time |-> 0, max_response_time |-> 0,
     p95_response_time |-> Q(0, 1), throughput_rps |-> Q(0, 1),
     error_rate |-> Q(1, 1)]

\* Mutant of SuccessMetrics: the error rate is taken over the successes
SuccessMetricsErrorsOverSuccesses(rs, errs, span, p95) ==
    [total_requests |-> Len(rs) + Len(errs),
     successful_requests |-> Len(rs),
     failed_requests |-> Len(errs),
     average_response_time |-> Q(SumSeq(rs), Len(rs)),
     min_response_time |-> MinSeq(rs),
     max_response_time |-> MaxSeq(rs),
     p95_response_time |-> p95,
     throughput_rps |-> Q(Len(rs), span),
     error_rate |-> Q(Len(errs), Len(rs))]

\* run_load_test: the metrics of a run with successes (if branch), given
\* the 95th percentile
SuccessMetrics(rs, errs, span, p95) ==
    [total_requests |-> Len(rs) + Len(errs),
     successful_requests |-> Len(rs),
     failed_requests |-> Len(errs),
     average_response_time |-> Q(SumSeq(rs), Len(rs)),
     min_response_time |-> MinSeq(rs),
     max_response_time |-> MaxSeq(rs),
     p95_response_time |-> p95,
     throughput_rps |-> Q(Len(rs), span),
     error_rate |-> Q(Len(errs), Len(rs) + Len(errs))]

\* What statistics.quantiles can yield for the pool: with one sample it
\* raises StatisticsError up to Python 3.12 and returns the sample from
\* 3.13 on.
P95Outcomes(rs) ==
    IF Len(rs) >= 2 THEN {[raised |-> FALSE, value |-> Quantile95(rs)]}
    ELSE {[raised |-> TRUE, value |-> Q(0, 1)],
          [raised |-> FALSE, value |-> Q(rs[1], 1)]}

\* -------------------------------------------------------- the suite's machine
NoRaise == [c \in Categories |-> 0]

\* Where unexpected exceptions strike: any subset of the categories at the
\* start of the method, or one category at any of its steps (Steps(c) + 1:
\* after its last step).
RaiseScenarios ==
    [Categories -> {0, 1}]
        \cup UNION {{[NoRaise EXCEPT ![c] = k] : k \in 1..(Steps(c) + 1)} :
                      c \in Categories}

InitSuite ==
    /\ results = <<>> /\ cat = 1 /\ step = 0
    /\ held = <<>> /\ probe = NoProbe
    /\ invoked = [c \in Categories |-> 0]
    /\ raised = {}
    /\ ws = NoWs
    /\ now = 0 /\ gwSeen = {} /\ wire = <<>>
    /\ \/ raiseAt = NoRaise /\ faultsLeft = MaxFaults
       \/ raiseAt \in RaiseScenarios /\ faultsLeft = 0

\* The LoadTester before run_load_test is called
\* No report yet
NoReport == [kind |-> "none"]

\* Nothing generated yet
NoGen == [kind |-> "none"]

\* run_quick_test has not been called
NoQuick ==
    [phase |-> "none", i |-> 0, passed |-> 0, ret |-> FALSE, exit |-> -1,
     raises |-> {}]

\* Nothing but one suite run or one load run has happened
RestIdle ==
    /\ run = 1
    /\ report = NoReport /\ previous = NoReport
    /\ gen = NoGen
    /\ quick = NoQuick

LoadIdle ==
    /\ lpc = "idle" /\ start_time = 0
    /\ lt_results = <<>> /\ lt_errors = <<>>
    /\ metrics = NoMetrics
    /\ worker = <<>>
    /\ attempts = 0 /\ stamped = {} /\ collided = FALSE
    /\ accepted = 0 /\ failed = 0

Init ==
    /\ InitSuite
    /\ config = [users |-> 1, duration |-> 0]
    /\ LoadIdle
    /\ RestIdle

Next ==
    \/ CategoryCall
    \/ CategoryReturn
    \/ CategoryRaise
    \/ TestHealthEndpoint
    \/ ValidationValid
    \/ ValidationInvalid
    \/ AntiSpamUnauthorized
    \/ AntiSpamFirst
    \/ AntiSpamSecond
    \/ BatchGenerate
    \/ BatchSubmit
    \/ BatchStatus
    \/ WsStart
    \/ WsDeliver
    \/ WsPost
    \/ WsEvaluate
    \/ TestMetricsEndpoint
    \/ TestErrorHandling
    \/ TestStatusEndpoint

Spec == Init /\ [][Next]_vars

\* ------------------------------------------------------------- load driver
Users == 0..(config.users - 1)

\* Outcomes of one submission of the load run
LoadOutcomes == {Resp(202, "ok"), Resp(500, "ok"), Exc}

NoRequest == [ts |-> 0, start_request |-> 0]

\* No answer yet to a request of this worker
NoResponse == [kind |-> "none", status |-> 0, body |-> "none"]

\* The timestamp _user_load_test stamps on the event of one iteration
LoadTimestamp(t, user_id) == t + user_id

\* Mutant of MergeResults: the pool is replaced, not extended
MergeOverwrite(rs, user_results) == user_results

\* self.results.extend(user_results)
MergeResults(rs, user_results) == rs \o user_results

\* Mutant of LoopTest: a request that raised is posted again as it is
LoopTestRetry(w, user_id, t) ==
    IF t < w.end_time
    THEN IF w.response.kind = "exc"
         THEN [w EXCEPT !.pc = "post", !.request.start_request = t]
         ELSE [w EXCEPT !.pc = "post",
                        !.generated = @ + 1,
                        !.request = [ts |-> LoadTimestamp(t, user_id),
                                     start_request |-> t]]
    ELSE [w EXCEPT !.pc = "returned"]

\* _user_load_test at its loop test at time t: the frame after it has
\* either generated, stamped and posted the next event or left the loop
LoopTest(w, user_id, t) ==
    IF t < w.end_time
    THEN [w EXCEPT !.pc = "post",
                   !.generated = @ + 1,
                   !.request = [ts |-> LoadTimestamp(t, user_id),
                                start_request |-> t]]
    ELSE [w EXCEPT !.pc = "returned"]

\* What the gateway sees when worker u moves to frame w
Wire(w) ==
    IF w.pc = "post"
    THEN /\ attempts' = attempts + 1
         /\ stamped' = stamped \cup {w.request.ts}
         /\ collided' = (collided \/ w.request.ts \in stamped)
    ELSE UNCHANGED <<attempts, stamped, collided>>

\* Mutant of EndTime: the deadline is counted from the start of the run
EndTimeShared(t) == start_time + config.duration

\* end_time of a _user_load_test call that begins at time t
EndTime(t) == t + config.duration

\* run_load_test: start_time is taken and the U tasks are submitted
LoadStart ==
    /\ lpc = "idle"
    /\ lpc' = "collect"
    /\ start_time' = now
    /\ worker' = [u \in Users |->
                    [pc |-> "queued", end_time |-> 0, user_results |-> <<>>,
                     generated |-> 0, request |-> NoRequest,
                     response |-> NoResponse, wake |-> 0]]
    /\ UNCHANGED <<config, lt_results, lt_errors, metrics, loadEnv>>
    /\ UNCHANGED <<suiteVars, envVars, restVars>>

\* _user_load_test(user_id) begins: its own deadline, the first loop test
WorkerStart(u) ==
    /\ lpc = "collect" /\ worker[u].pc = "queued"
    /\ LET w == LoopTest([worker[u] EXCEPT !.end_time = EndTime(now)],
                         u, now)
       IN worker' = [worker EXCEPT ![u] = w] /\ Wire(w)
    /\ UNCHANGED <<config, lpc, start_time, lt_results, lt_errors, metrics,
                   accepted, failed>>
    /\ UNCHANGED <<suiteVars, envVars, restVars>>

\* _user_load_test: the post returned 202; the latency is recorded and the
\* worker sleeps
WorkerAccepted(u) ==
    /\ lpc = "collect" /\ worker[u].pc = "post"
    /\ now - worker[u].request.start_request \in LatenciesMs
    /\ worker' = [worker EXCEPT
            ![u].pc = "sleep",
            ![u].response = Resp(AcceptedStatus, "ok"),
            ![u].wake = now + SmallDelayMs,
            ![u].user_results =
                Append(@, now - worker[u].request.start_request)]
    /\ accepted' = accepted + 1
    /\ UNCHANGED <<config, lpc, start_time, lt_results, lt_errors, metrics,
                   attempts, stamped, collided, failed>>
    /\ UNCHANGED <<suiteVars, envVars, restVars>>

\* _user_load_test: the post returned another status; an error is recorded
\* and the worker sleeps
WorkerRejected(u) ==
    /\ lpc = "collect" /\ worker[u].pc = "post"
    /\ now - worker[u].request.start_request \in LatenciesMs
    /\ \E out \in {o \in LoadOutcomes :
                      o.kind = "resp" /\ o.status # AcceptedStatus} :
          /\ lt_errors' = Append(lt_errors,
                                 [user |-> u, status |-> out.status])
          /\ worker' = [worker EXCEPT ![u].pc = "sleep",
                                      ![u].response = out,
                                      ![u].wake = now + SmallDelayMs]
    /\ failed' = failed + 1
    /\ UNCHANGED <<config, lpc, start_time, lt_results, metrics,
                   attempts, stamped, collided, accepted>>
    /\ UNCHANGED <<suiteVars, envVars, restVars>>

\* _user_load_test: the post raised; an error is recorded and the loop test
\* follows at once
WorkerException(u) ==
    /\ lpc = "collect" /\ worker[u].pc = "post"
    /\ now - worker[u].request.start_request \in LatenciesMs
    /\ lt_errors' = Append(lt_errors, [user |-> u, status |-> 0])
    /\ LET w == LoopTest([worker[u] EXCEPT !.response = Exc], u, now)
       IN worker' = [worker EXCEPT ![u] = w] /\ Wire(w)
    /\ failed' = failed + 1
    /\ UNCHANGED <<config, lpc, start_time, lt_results, metrics, accepted>>
    /\ UNCHANGED <<suiteVars, envVars, restVars>>

\* _user_load_test: time.sleep(0.1) is over; the loop test follows
WorkerWake(u) ==
    /\ lpc = "collect" /\ worker[u].pc = "sleep"
    /\ now >= worker[u].wake
    /\ LET w == LoopTest(worker[u], u, now)
       IN worker' = [worker EXCEPT ![u] = w] /\ Wire(w)
    /\ UNCHANGED <<config, lpc, start_time, lt_results, lt_errors, metrics,
                   accepted, failed>>
    /\ UNCHANGED <<suiteVars, envVars, restVars>>

\* run_load_test: as_completed yields the future of user u
LoadCollect(u) ==
    /\ lpc = "collect" /\ worker[u].pc = "returned"
    /\ lt_results' = MergeResults(lt_results, worker[u].user_results)
    /\ worker' = [worker EXCEPT ![u].pc = "collected"]
    /\ UNCHANGED <<config, lpc, start_time, lt_errors, metrics, loadEnv>>
    /\ UNCHANGED <<suiteVars, envVars, restVars>>

\* run_load_test: all futures collected; the metrics are computed
LoadAggregate ==
    /\ lpc = "collect"
    /\ \A u \in Users : worker[u].pc = "collected"
    /\ LET total_duration == now - start_time
       IN IF lt_results # <<>>
          THEN \E p \in P95Outcomes(lt_results) :
                  IF p.raised \/ total_duration = 0
                  THEN lpc' = "raised" /\ metrics' = metrics
                  ELSE /\ lpc' = "done"
                       /\ metrics' = SuccessMetrics(lt_results, lt_errors,
                                                    total_duration, p.value)
          ELSE lpc' = "done" /\ metrics' = ZeroSuccessMetrics(lt_errors)
    /\ UNCHANGED <<config, start_time, lt_results, lt_errors, worker,
                   loadEnv>>
    /\ UNCHANGED <<suiteVars, envVars, restVars>>

Sleeping == {u \in Users : worker[u].pc = "sleep"}

Finished == {u \in Users : worker[u].pc \in {"returned", "collected"}}

\* The earliest wake-up among the sleeping workers
NextWake ==
    CHOOSE w \in {worker[u].wake : u \in Sleeping} :
        \A u \in Sleeping : w <= worker[u].wake

\* The wall clock advances: by one millisecond while some worker is busy
\* (a request is answered after one of LatenciesMs, a queued task starts
\* after one of StartDelaysMs), and to the next wake-up when every
\* unfinished worker sleeps.
Tick ==
    /\ lpc = "collect"
    /\ Finished # Users
    /\ \A u \in Users :
          /\ worker[u].pc = "post" =>
                \E l \in LatenciesMs :
                    now + 1 - worker[u].request.start_request <= l
          /\ worker[u].pc = "queued" =>
                \E d \in StartDelaysMs : now + 1 - start_time <= d
          /\ worker[u].pc = "sleep" => now < worker[u].wake
    /\ now' = IF Sleeping \cup Finished = Users
              THEN NextWake
              ELSE now + 1
    /\ UNCHANGED <<gwSeen, wire, faultsLeft, raiseAt>>
    /\ UNCHANGED <<suiteVars, loadVars, restVars>>

InitLoad ==
    /\ results = <<>> /\ cat = NumCategories + 1 /\ step = 0
    /\ held = <<>> /\ probe = NoProbe
    /\ invoked = [c \in Categories |-> 0]
    /\ raised = {}
    /\ ws = NoWs
    /\ now = 0 /\ gwSeen = {} /\ wire = <<>>
    /\ raiseAt = NoRaise /\ faultsLeft = 0
    /\ config \in [users : 1..MaxUsers, duration : DurationsMs]
    /\ LoadIdle
    /\ RestIdle

NextLoad ==
    \/ LoadStart
    \/ \E u \in Users : WorkerStart(u)
    \/ \E u \in Users : WorkerAccepted(u)
    \/ \E u \in Users : WorkerRejected(u)
    \/ \E u \in Users : WorkerException(u)
    \/ \E u \in Users : WorkerWake(u)
    \/ \E u \in Users : LoadCollect(u)
    \/ LoadAggregate
    \/ Tick

SpecLoad == InitLoad /\ [][NextLoad]_vars

\* --------------------------------------------------- reuse of a LoadTester
\* run_load_test is called again on the same LoadTester: nothing of the
\* instance is reset (self.results and self.errors are assigned only in
\* __init__); the gateway's view of the run starts afresh.
LoadAgain ==
    /\ lpc \in {"done", "raised"}
    /\ run < MaxRuns
    /\ run' = run + 1
    /\ lpc' = "idle"
    /\ worker' = <<>>
    /\ attempts' = 0 /\ stamped' = {} /\ collided' = FALSE
    /\ accepted' = 0 /\ failed' = 0
    /\ UNCHANGED <<config, start_time, lt_results, lt_errors, metrics>>
    /\ UNCHANGED <<suiteVars, envVars, report, previous, gen, quick>>

\* One simulated user, so that the runs, not the workers, interleave
InitReuse ==
    /\ InitLoad
    /\ config.users = 1

NextReuse ==
    \/ NextLoad
    \/ LoadAgain

SpecReuse == InitReuse /\ [][NextReuse]_vars

\* ----------------------------------------------------------------- reporter
\* Test names as generate_report reads them: sequences of characters.
BatchEvent0 ==
    <<"b", "a", "t", "c", "h", "_", "e", "v", "e", "n", "t", "_", "0">>
BatchEvent1 ==
    <<"b", "a", "t", "c", "h", "_", "e", "v", "e", "n", "t", "_", "1">>
HealthCheck ==
    <<"h", "e", "a", "l", "t", "h", "_", "c", "h", "e", "c", "k">>
HealthFatal ==
    <<"H", "e", "a", "l", "t", "h", " ", "C", "h", "e", "c", "k", "_", "F",
      "A", "T", "A", "L">>
ValidEventName ==
    <<"v", "a", "l", "i", "d", "_", "e", "v", "e", "n", "t">>

ReportNames ==
    {BatchEvent0, BatchEvent1, HealthCheck, HealthFatal, ValidEventName}

\* The results the reporter is explored with
ResultSamples ==
    {TestResult(BatchEvent0, TRUE, 10, FALSE, TRUE),
     TestResult(BatchEvent0, FALSE, 25, TRUE, FALSE),
     TestResult(BatchEvent1, TRUE, 10, FALSE, TRUE),
     TestResult(BatchEvent1, FALSE, 25, FALSE, TRUE),
     TestResult(HealthCheck, TRUE, 10, FALSE, TRUE),
     TestResult(HealthCheck, FALSE, 25, TRUE, FALSE),
     TestResult(HealthFatal, FALSE, 0, TRUE, FALSE),
     TestResult(ValidEventName, TRUE, 25, FALSE, TRUE)}

\* The load metrics the reporter is explored with: none, or those of a run
\* of three requests, two of them answered 202 after 1 and 2 ms
MetricsSamples ==
    {NoMetrics,
     SuccessMetrics(<<1, 2>>, <<[user |-> 0, status |-> 500]>>, 120,
                    Quantile95(<<1, 2>>))}

\* The wall clock readings the reporter is explored with, in ms
ClockSamplesMs == {0, 999, 1000}

RECURSIVE FirstSegment(_)
\* test_name.split('_')[0]
FirstSegment(name) ==
    IF name = <<>> \/ Head(name) = "_" THEN <<>>
    ELSE <<Head(name)>> \o FirstSegment(Tail(name))

\* Mutant of CategoryOf: the whole name is the category
CategoryWholeName(r) == r.test_name

\* The category generate_report files a result under
CategoryOf(r) == FirstSegment(r.test_name)

\* str.upper() on one character
Upper(c) ==
    CASE c = "a" -> "A"
      [] c = "b" -> "B"
      [] c = "c" -> "C"
      [] c = "d" -> "D"
      [] c = "e" -> "E"
      [] c = "f" -> "F"
      [] c = "g" -> "G"
      [] c = "h" -> "H"
      [] c = "i" -> "I"
      [] c = "j" -> "J"
      [] c = "k" -> "K"
      [] c = "l" -> "L"
      [] c = "m" -> "M"
      [] c = "n" -> "N"
      [] c = "o" -> "O"
      [] c = "p" -> "P"
      [] c = "q" -> "Q"
      [] c = "r" -> "R"
      [] c = "s" -> "S"
      [] c = "t" -> "T"
      [] c = "u" -> "U"
      [] c = "v" -> "V"
      [] c = "w" -> "W"
      [] c = "x" -> "X"
      [] c = "y" -> "Y"
      [] c = "z" -> "Z"
      [] OTHER -> c

\* category.upper()
UpperSeq(cs) == [i \in 1..Len(cs) |-> Upper(cs[i])]

RECURSIVE CategoriesOf(_, _)
\* The keys of the categories dict after the grouping loop went through
\* rs, having begun with keys seen: in order of first appearance
CategoriesOf(rs, seen) ==
    IF rs = <<>> THEN seen
    ELSE CategoriesOf(Tail(rs),
                      IF \E k \in 1..Len(seen) : seen[k] = CategoryOf(Head(rs))
                      THEN seen
                      ELSE Append(seen, CategoryOf(Head(rs))))

\* categories[c]: the results filed under c, in insertion order
CategoryResults(rs, c) == SelectSeq(rs, LAMBDA r : CategoryOf(r) = c)

\* Mutant of CountPassed: every result counts as passed
CountAll(rs) == Len(rs)

\* sum(1 for r in rs if r.passed)
CountPassed(rs) == Cardinality({i \in 1..Len(rs) : rs[i].passed})

\* One line of a category block: status, name and duration, and whether an
\* "Error:" line follows
ReportLine(r) ==
    [status |-> IF r.passed THEN "PASS" ELSE "FAIL",
     test_name |-> r.test_name,
     duration_ms |-> r.duration_ms,
     error |-> ~r.passed /\ r.error_message]

\* The block of category c: heading, pass ratio, lines
ReportBlock(rs, c) ==
    LET crs == CategoryResults(rs, c)
    IN [heading |-> UpperSeq(c),
        passed |-> CountPassed(crs),
        total |-> Len(crs),
        lines |-> [i \in 1..Len(crs) |-> ReportLine(crs[i])]]

\* The LOAD TEST RESULTS section, present when load_metrics is given
LoadSection(m) ==
    IF m = NoMetrics THEN [kind |-> "none"]
    ELSE [kind |-> "load",
          total_requests |-> m.total_requests,
          successful_requests |-> m.successful_requests,
          failed_requests |-> m.failed_requests,
          throughput_rps |-> m.throughput_rps,
          error_rate |-> m.error_rate,
          average_response_time |-> m.average_response_time,
          p95_response_time |-> m.p95_response_time]

\* Mutant of Generated: the report carries no time
GeneratedNever(t) == 0

\* datetime.now().strftime('%Y-%m-%d %H:%M:%S') at clock reading t (ms)
Generated(t) == t \div 1000

\* TestReporter.generate_report(results, load_metrics) at clock reading t:
\* the text it returns, field by field; with no results the percentage of
\* the summary divides by zero
generate_report(rs, load_metrics, t) ==
    IF Len(rs) = 0 THEN [kind |-> "raised"]
    ELSE LET total_tests == Len(rs)
             passed_tests == CountPassed(rs)
             failed_tests == total_tests - passed_tests
             durations == [i \in 1..Len(rs) |-> rs[i].duration_ms]
             cats == CategoriesOf(rs, <<>>)
         IN [kind |-> "text",
             generated |-> Generated(t),
             total_tests |-> total_tests,
             passed_tests |-> passed_tests,
             passed_pct |-> Q(passed_tests * 100, total_tests),
             failed_tests |-> failed_tests,
             failed_pct |-> Q(failed_tests * 100, total_tests),
             avg_duration |-> Q(SumSeq(durations), total_tests),
             max_duration |-> MaxSeq(durations),
             blocks |-> [k \in 1..Len(cats) |-> ReportBlock(rs, cats[k])],
             load |-> LoadSection(load_metrics)]

\* A caller invokes TestReporter.generate_report on the collection
GenerateReport ==
    /\ previous' = report
    /\ report' = generate_report(results, metrics, now)
    /\ UNCHANGED <<suiteVars, envVars, run, gen, quick>>
    /\ UNCHANGED <<config, lpc, start_time, lt_results, lt_errors, metrics,
                   worker, loadEnv>>

\* Time passes between two calls of the reporter
ReportTick ==
    /\ \E t \in ClockSamplesMs : t > now /\ now' = t
    /\ UNCHANGED <<gwSeen, wire, faultsLeft, raiseAt>>
    /\ UNCHANGED <<suiteVars, loadVars, restVars>>

\* A result collection of at most MaxResults results and, or not, the
\* metrics of a load run
InitReport ==
    /\ results \in UNION {[1..n -> ResultSamples] : n \in 0..MaxResults}
    /\ metrics \in MetricsSamples
    /\ cat = NumCategories + 1 /\ step = 0
    /\ held = <<>> /\ probe = NoProbe
    /\ invoked = [c \in Categories |-> 0]
    /\ raised = {}
    /\ ws = NoWs
    /\ now = 0 /\ gwSeen = {} /\ wire = <<>>
    /\ raiseAt = NoRaise /\ faultsLeft = 0
    /\ config = [users |-> 1, duration |-> 0]
    /\ lpc = "idle" /\ start_time = 0
    /\ lt_results = <<>> /\ lt_errors = <<>>
    /\ worker = <<>>
    /\ attempts = 0 /\ stamped = {} /\ collided = FALSE
    /\ accepted = 0 /\ failed = 0
    /\ RestIdle

NextReport ==
    \/ GenerateReport
    \/ ReportTick

SpecReport == InitReport /\ [][NextReport]_vars

\* ---------------------------------------------------- invalid-event catalogue
\* The call of TestDataGenerator.generate_invalid_events under study, at the
\* current time and with one outcome of the random module; base_event is kept
\* beside the list the call returns.
GenerateInvalidEvents ==
    /\ gen = NoGen
    /\ \E d \in Draws :
          gen' = [kind |-> "events",
                  base_event |-> generate_valid_event(DeviceId, now, d),
                  invalid_events |-> generate_invalid_events(now, d)]
    /\ UNCHANGED <<gwSeen, wire, faultsLeft, raiseAt, now>>
    /\ UNCHANGED <<suiteVars, loadVars, run, report, previous, quick>>

\* The device ids generate_valid_event is called with
DeviceIdArgs == {DeviceId, "UNAUTHORIZED1"}

\* The call of TestDataGenerator.generate_valid_event(device_id) under study
GenerateValidEvent ==
    /\ gen = NoGen
    /\ \E device_id \in DeviceIdArgs, d \in Draws :
          gen' = [kind |-> "event",
                  device_id |-> device_id,
                  event |-> generate_valid_event(device_id, now, d)]
    /\ UNCHANGED <<gwSeen, wire, faultsLeft, raiseAt, now>>
    /\ UNCHANGED <<suiteVars, loadVars, run, report, previous, quick>>

InitGen ==
    /\ InitReport
    /\ results = <<>> /\ metrics = NoMetrics

NextGen ==
    \/ GenerateInvalidEvents
    \/ GenerateValidEvent
    \/ ReportTick

SpecGen == InitGen /\ [][NextGen]_vars

\* ------------------------------------------------- run_tests.py: quick test
\* len(essential_tests)
EssentialTests == 3

\* run_quick_test: test_func() returned without raising, so the loop counts
\* the check as passed whatever it recorded
QuickCounted(q) == [q EXCEPT !.i = @ + 1, !.passed = @ + 1]

\* The essential test about to run does not raise
QuickRunning(k) ==
    quick.phase = "tests" /\ quick.i = k /\ k \notin quick.raises

quickUnchanged ==
    /\ UNCHANGED <<cat, step, held, invoked, raised, ws, raiseAt>>
    /\ UNCHANGED <<loadVars, run, report, previous, gen>>

\* "Health Check": test_suite.test_health_endpoint
QuickHealth ==
    /\ QuickRunning(1)
    /\ \E out \in Outcomes(Get("/health")) :
          /\ Exchange(Get("/health"), out, 0)
          /\ results' = Append(results, JsonGetResult("health_check", out))
    /\ quick' = QuickCounted(quick)
    /\ UNCHANGED probe
    /\ quickUnchanged

\* "Event Validation": _test_single_event on a fresh valid event for the
\* default device, named smoke_test_event, expected to pass
QuickSmokeEvent ==
    /\ QuickRunning(2)
    /\ \E d \in SuiteDraws :
          TestSingleEvent(generate_valid_event(DeviceId, now, d),
                          "smoke_test_event", TRUE, 0)
    /\ quick' = QuickCounted(quick)
    /\ quickUnchanged

\* "Status Endpoint": test_suite.test_status_endpoint
QuickStatus ==
    /\ QuickRunning(3)
    /\ \E out \in Outcomes(Get("/status")) :
          /\ Exchange(Get("/status"), out, 0)
          /\ results' = Append(results, JsonGetResult("status_endpoint", out))
    /\ quick' = QuickCounted(quick)
    /\ UNCHANGED probe
    /\ quickUnchanged

\* test_func() raised: the except clause of the loop prints FAIL and the
\* check is not counted
QuickRaise ==
    /\ quick.phase = "tests" /\ quick.i \in quick.raises
    /\ quick' = [quick EXCEPT !.i = @ + 1]
    /\ UNCHANGED <<results, probe, envVars>>
    /\ quickUnchanged

\* run_quick_test returns passed == total
QuickReturn ==
    /\ quick.phase = "tests" /\ quick.i = EssentialTests + 1
    /\ quick' = [quick EXCEPT !.phase = "returned",
                              !.ret = (quick.passed = EssentialTests)]
    /\ UNCHANGED <<results, probe, envVars>>
    /\ quickUnchanged

\* main of run_tests.py: sys.exit(0) if success else sys.exit(1)
QuickExit ==
    /\ quick.phase = "returned"
    /\ quick' = [quick EXCEPT !.phase = "exited",
                              !.exit = IF quick.ret THEN 0 ELSE 1]
    /\ UNCHANGED <<results, probe, envVars>>
    /\ quickUnchanged

\* python run_tests.py --quick: a fresh GatewayTestSuite, a gateway that may
\* deviate MaxFaults times, and the tests at which an unexpected exception
\* strikes
InitQuick ==
    /\ results = <<>> /\ cat = NumCategories + 1 /\ step = 0
    /\ held = <<>> /\ probe = NoProbe
    /\ invoked = [c \in Categories |-> 0]
    /\ raised = {}
    /\ ws = NoWs
    /\ now = 0 /\ gwSeen = {} /\ wire = <<>>
    /\ raiseAt = NoRaise /\ faultsLeft = MaxFaults
    /\ config = [users |-> 1, duration |-> 0]
    /\ LoadIdle
    /\ run = 1 /\ report = NoReport /\ previous = NoReport /\ gen = NoGen
    /\ quick \in {[phase |-> "tests", i |-> 1, passed |-> 0, ret |-> FALSE,
                    exit |-> -1, raises |-> R] :
                      R \in SUBSET (1..EssentialTests)}

NextQuick ==
    \/ QuickHealth
    \/ QuickSmokeEvent
    \/ QuickStatus
    \/ QuickRaise
    \/ QuickReturn
    \/ QuickExit

SpecQuick == InitQuick /\ [][NextQuick]_vars

\* ------------------------------------------------------- claims on the suite
\* The step just taken was a call of _test_single_event
ProbeCalled == probe'.calls = probe.calls + 1

\* C1: whenever _test_single_event got a response, the TestResult it
\* records has passed = ((status = 202) = should_pass), for every status
\* and both values of should_pass, and the call returns that boolean.
C1_VerdictMatchesExpectation ==
    [][(ProbeCalled /\ probe'.out.kind = "resp") =>
          /\ Len(results') = Len(results) + 1
          /\ Last(results').passed =
                ((probe'.out.status = 202) = probe'.should_pass)
          /\ probe'.ret = Last(results').passed]_vars

\* C1 witness: an event expected to be rejected was answered 202; the
\* recorded result and the returned value are both False.
C1_Witness ==
    /\ probe.calls > 0 /\ ~probe.should_pass
    /\ probe.out.kind = "resp" /\ probe.out.status = 202
    /\ results # <<>> /\ Last(results).test_name = probe.test_name
    /\ ~Last(results).passed /\ ~probe.ret

\* C2: every call of _test_single_event, whatever the outcome of the
\* submission, appends exactly one TestResult named test_name and returns;
\* on a transport failure the result has passed = False and the call
\* returns False, whether should_pass is True or False.
C2_ProbeAlwaysRecords ==
    [][ProbeCalled =>
          /\ Len(results') = Len(results) + 1
          /\ SubSeq(results', 1, Len(results)) = results
          /\ Last(results').test_name = probe'.test_name
          /\ probe'.ret \in BOOLEAN
          /\ probe'.out.kind = "exc" =>
                (~Last(results').passed /\ probe'.ret = FALSE)]_vars

\* C2 witness: a probe expecting rejection met a transport failure and
\* recorded a failed result.
C2_Witness ==
    /\ probe.calls > 0 /\ ~probe.should_pass /\ probe.out.kind = "exc"
    /\ results # <<>> /\ Last(results).test_name = probe.test_name
    /\ ~Last(results).passed /\ Last(results).error_message

FatalIndexes(c) ==
    {i \in 1..Len(results) : results[i].test_name = FatalName(c)}

\* C3: when run_all_tests has returned, each of the eight test methods was
\* invoked exactly once whatever subset of them raised, and each raising
\* category has exactly one result "<category>_FATAL" with passed = False and
\* duration 0 (a category that did not raise has none).
C3_CategoriesIsolated ==
    cat = NumCategories + 1 =>
        \A c \in Categories :
            /\ invoked[c] = 1
            /\ Cardinality(FatalIndexes(c)) = (IF c \in raised THEN 1 ELSE 0)
            /\ \A i \in FatalIndexes(c) :
                  ~results[i].passed /\ results[i].duration_ms = 0

\* C3 witness: a finished run in which several, but not all, categories
\* raised.
C3_Witness ==
    /\ cat = NumCategories + 1
    /\ Cardinality(raised) >= 3 /\ Cardinality(raised) < NumCategories
    /\ 1 \in raised /\ 8 \notin raised /\ invoked[8] = 1
    /\ \E i \in 1..Len(results) : results[i].test_name = "status_endpoint"

\* The category a result belongs to, by the name its check gives it
CategoryOfResult(r) ==
    LET n == r.test_name
    IN CASE n \in {"health_check", FatalName(1)} -> 1
         [] n \in {"valid_event", FatalName(2)}
              \cup {InvalidEventName(i) : i \in 1..6} -> 2
         [] n \in {"unauthorized_device", "duplicate_test_first",
                   "duplicate_test_second", FatalName(3)} -> 3
         [] n \in {"batch_processing_status", FatalName(4)}
              \cup {BatchEventName(i) : i \in 0..4} -> 4
         [] n \in {"websocket_communication", FatalName(5)} -> 5
         [] n \in {"metrics_endpoint", FatalName(6)} -> 6
         [] n \in {ErrorCase(i).name : i \in 1..4} \cup {FatalName(7)} -> 7
         [] n \in {"status_endpoint", FatalName(8)} -> 8
         [] OTHER -> 0

\* C4: the categories run one after another in list order, self.results
\* only ever grows at its end, and so every result of an earlier category
\* precedes every result of a later one.
C4_AppendOnlyInOrder ==
    [][/\ IsPrefix(results, results')
       /\ cat' \in {cat, cat + 1}
       /\ results' # results =>
             /\ CategoryOfResult(Last(results')) = cat
             /\ \A i \in 1..Len(results) :
                   CategoryOfResult(results[i])
                      <= CategoryOfResult(Last(results'))]_vars

\* C4 witness: a finished run with results of all eight categories.
C4_Witness ==
    /\ cat = NumCategories + 1
    /\ {CategoryOfResult(results[i]) : i \in 1..Len(results)} = Categories

\* Anti-spam has made its three submissions
AntiSpamDone == cat = 3 /\ step = Steps(3) + 1 /\ Len(wire) = 3

\* C5: the replay check sends the very same event twice, the second time
\* after the first exchange is over.  Against a gateway that accepts the
\* first and rejects the identical resubmission both results are recorded
\* with passed = True; against one that accepts the resubmission,
\* duplicate_test_second is recorded with passed = False.
C5_ReplayIsLiteral ==
    AntiSpamDone =>
        LET first == wire[2]
            second == wire[3]
            r1 == results[Len(results) - 1]
            r2 == results[Len(results)]
        IN /\ r1.test_name = "duplicate_test_first"
           /\ r2.test_name = "duplicate_test_second"
           /\ second.req = first.req
           /\ (first.out = first.conf /\ second.out = second.conf) =>
                 (r1.passed /\ r2.passed)
           /\ (first.out.kind = "resp" /\ first.out.status = 202
                 /\ second.out.kind = "resp" /\ second.out.status # 202) =>
                 (r1.passed /\ r2.passed)
           /\ (second.out.kind = "resp" /\ second.out.status = 202) =>
                 ~r2.passed

\* C5 witness: the gateway kept its contract on both submissions (202, then
\* a rejection of the replay) and both results passed.
C5_Witness ==
    /\ AntiSpamDone
    /\ wire[2].out = Resp(202, "ok") /\ wire[3].out = Resp(409, "ok")
    /\ wire[3].req.event.ts = wire[2].req.event.ts
    /\ results[Len(results) - 1].passed /\ results[Len(results)].passed


\* ----------------------------------------------------- claims on the load run
LoadEnded == lpc \in {"done", "raised"}

\* C6: a load run in which no submission is answered 202 (any number of
\* failures, none included) returns metrics: successful_requests is 0, the
\* average, min, max and p95 response times and the throughput are 0, the
\* error rate is 1, and the failures are all counted.
C6_ZeroSuccessMetrics ==
    (LoadEnded /\ accepted = 0) =>
        /\ lpc = "done"
        /\ metrics.successful_requests = 0
        /\ metrics.total_requests = failed
        /\ metrics.failed_requests = failed
        /\ QEq(metrics.average_response_time, Q(0, 1))
        /\ metrics.min_response_time = 0
        /\ metrics.max_response_time = 0
        /\ QEq(metrics.p95_response_time, Q(0, 1))
        /\ QEq(metrics.throughput_rps, Q(0, 1))
        /\ QEq(metrics.error_rate, Q(1, 1))

C6_Witness ==
    /\ lpc = "done" /\ accepted = 0 /\ failed >= 2
    /\ metrics.failed_requests = failed

\* The largest sample of the pool, and the largest of the others
TopTwo(rs) ==
    LET i == CHOOSE k \in 1..Len(rs) : \A l \in 1..Len(rs) : rs[l] <= rs[k]
        j == CHOOSE k \in (1..Len(rs)) \ {i} :
                \A l \in (1..Len(rs)) \ {i} : rs[l] <= rs[k]
    IN [hi |-> rs[i], next |-> rs[j]]

\* C7 as stated: the reported p95 is the nearest-rank 95th percentile, the
\* sample at rank ceil(0.95 * N) of the sorted pool, hence one of the samples.
C7_NearestRank ==
    (lpc = "done" /\ lt_results # <<>>) =>
        /\ QEq(metrics.p95_response_time,
               Q(Sorted(lt_results)[(19 * Len(lt_results) + 19) \div 20], 1))
        /\ \E i \in 1..Len(lt_results) :
              QEq(metrics.p95_response_time, Q(lt_results[i], 1))

\* C7, amended: for a pool of N samples, 2 <= N <= 18, the reported p95 is
\* the exclusive-method quantile: the largest sample plus (19 - N)/20 of
\* its distance to the next largest, so never below the largest sample;
\* for a single sample a returned p95 is that sample.
C7_ExclusiveQuantile ==
    (lpc = "done" /\ lt_results # <<>>) =>
        LET n == Len(lt_results)
        IN IF n = 1
           THEN QEq(metrics.p95_response_time, Q(lt_results[1], 1))
           ELSE n <= 18 =>
                  LET t == TopTwo(lt_results)
                  IN /\ QEq(metrics.p95_response_time,
                            Q(t.hi * 20 + (19 - n) * (t.hi - t.next), 20))
                     /\ QLe(Q(t.hi, 1), metrics.p95_response_time)

C7_Witness ==
    /\ lpc = "done" /\ Len(lt_results) >= 2
    /\ \E i, j \in 1..Len(lt_results) : lt_results[i] # lt_results[j]
    /\ \A i \in 1..Len(lt_results) :
          ~QEq(metrics.p95_response_time, Q(lt_results[i], 1))

\* C8: the metrics returned for a run with at least one success count every
\* attempt once: total = successful + failed = submissions made, successful
\* = submissions answered 202, error rate = failed / total, throughput =
\* successful / wall-clock span of the run, and min <= average <= max.
C8_SuccessMetrics ==
    (lpc = "done" /\ accepted > 0) =>
        /\ metrics.total_requests
              = metrics.successful_requests + metrics.failed_requests
        /\ metrics.total_requests = attempts
        /\ metrics.successful_requests = accepted
        /\ metrics.failed_requests = failed
        /\ QEq(metrics.error_rate, Q(failed, attempts))
        /\ QEq(metrics.throughput_rps, Q(accepted, now - start_time))
        /\ QLe(Q(metrics.min_response_time, 1), metrics.average_response_time)
        /\ QLe(metrics.average_response_time, Q(metrics.max_response_time, 1))

C8_Witness ==
    /\ lpc = "done" /\ accepted >= 2 /\ failed >= 1
    /\ metrics.min_response_time < metrics.max_response_time
    /\ metrics.total_requests = attempts

\* C9 as stated: within one load run no two submitted events carry the same
\* ts.
C9_TimestampsUnique == ~collided

\* C10: accumulation loses nothing under any interleaving of the workers.
\* The shared error list only grows at its end; a worker's latency buffer
\* changes only in that worker's own step and reaches the pool only whole
\* and once the worker has returned; when every worker is merged the pool
\* holds one sample per 202 answer and the error list one record per failed
\* attempt.
C10_AccumulationLosesNothing ==
    [][/\ IsPrefix(lt_errors, lt_errors')
       /\ \A u \in DOMAIN worker \cap DOMAIN worker' :
             worker'[u].user_results # worker[u].user_results =>
                /\ worker[u].pc = "post"
                /\ IsPrefix(worker[u].user_results, worker'[u].user_results)
                /\ lt_results' = lt_results
                /\ \A v \in DOMAIN worker \ {u} : worker'[v] = worker[v]
       /\ lt_results' # lt_results =>
             \E u \in DOMAIN worker :
                /\ worker[u].pc = "returned"
                /\ worker'[u].pc = "collected"
                /\ lt_results' = lt_results \o worker[u].user_results
       /\ (lpc' = "collect"
             /\ \A u \in DOMAIN worker' : worker'[u].pc = "collected") =>
                /\ Len(lt_results') = accepted'
                /\ Len(lt_errors') = failed'
      ]_vars

C10_Witness ==
    /\ lpc = "done" /\ Len(lt_results) >= 2 /\ Len(lt_errors) >= 2
    /\ \E i, j \in 1..Len(lt_errors) : lt_errors[i].user # lt_errors[j].user
    /\ Len(lt_results) = accepted /\ Len(lt_errors) = failed


RECURSIVE EventsGenerated(_)
\* Events generated so far by the workers of the set us
EventsGenerated(us) ==
    IF us = {} THEN 0
    ELSE LET u == CHOOSE v \in us : TRUE
         IN worker[u].generated + EventsGenerated(us \ {u})

\* C11: in the load run every generated event is submitted exactly once,
\* and the answer to every submission leaves exactly one record: a latency
\* sample in the worker's buffer iff the status is 202, otherwise one entry
\* of the error list; a worker that posts again posts a newly generated
\* event.
C11_OneSamplePerAttempt ==
    [][/\ attempts' = EventsGenerated(DOMAIN worker)'
       /\ \A u \in DOMAIN worker \cap DOMAIN worker' :
             (worker[u].pc = "post" /\ worker'[u] # worker[u]) =>
                LET out == worker'[u].response
                IN /\ IF out.kind = "resp" /\ out.status = AcceptedStatus
                      THEN /\ Len(worker'[u].user_results)
                                 = Len(worker[u].user_results) + 1
                           /\ lt_errors' = lt_errors
                      ELSE /\ worker'[u].user_results
                                 = worker[u].user_results
                           /\ Len(lt_errors') = Len(lt_errors) + 1
                           /\ Last(lt_errors').user = u
                           /\ Last(lt_errors').status = out.status
                   /\ worker'[u].pc = "post" =>
                         worker'[u].generated = worker[u].generated + 1
      ]_vars

C11_Witness ==
    \E u \in DOMAIN worker :
        /\ worker[u].pc = "post" /\ worker[u].response.kind = "exc"
        /\ worker[u].generated = 2 /\ attempts >= 2
        /\ \E i \in 1..Len(lt_errors) : lt_errors[i].user = u



\* C12 as stated: a request that raises in one worker leaves one entry in
\* the error list and stops no worker (the worker itself goes on to its
\* next loop test, the others are untouched), and the run still returns
\* metrics whose failed_requests count the failure.
C12_ExceptionIsolated ==
    [][/\ \A u \in DOMAIN worker \cap DOMAIN worker' :
             (worker[u].pc = "post" /\ worker'[u] # worker[u]
                /\ worker'[u].response.kind = "exc") =>
                /\ Len(lt_errors') = Len(lt_errors) + 1
                /\ Last(lt_errors').user = u
                /\ worker'[u].pc = IF now < worker[u].end_time
                                   THEN "post" ELSE "returned"
                /\ \A v \in DOMAIN worker \ {u} : worker'[v] = worker[v]
       /\ (lpc = "collect" /\ lpc' # "collect"
             /\ \E i \in 1..Len(lt_errors) : lt_errors[i].status = 0) =>
                /\ lpc' = "done"
                /\ metrics'.failed_requests = failed'
      ]_vars



\* C13 as stated: the workers share one deadline, the start time of
\* run_load_test plus the duration; no request begins at or after it.
C13_SharedDeadline ==
    \A u \in DOMAIN worker :
        worker[u].pc = "post" =>
            worker[u].request.start_request < start_time + config.duration

\* C13, amended: every worker has a deadline of its own, the time its
\* _user_load_test call begins plus the duration; it is fixed when the call
\* begins and no request of the worker begins at or after it.
C13_OwnDeadline ==
    [][\A u \in DOMAIN worker \cap DOMAIN worker' :
          /\ (worker[u].pc = "queued" /\ worker'[u].pc # "queued") =>
                worker'[u].end_time = now + config.duration
          /\ worker[u].pc # "queued" =>
                worker'[u].end_time = worker[u].end_time
          /\ worker'[u].pc = "post" =>
                worker'[u].request.start_request < worker'[u].end_time
      ]_vars

C13_Witness ==
    \E u \in DOMAIN worker :
        /\ worker[u].pc = "post"
        /\ worker[u].request.start_request >= start_time + config.duration
        /\ worker[u].request.start_request < worker[u].end_time



\* C14 as stated: a LoadTester keeps no raw samples after a run, so the
\* metrics of every run, a second run on the same instance included, count
\* that run's submissions alone.
C14_RunOwnsItsSamples ==
    lpc = "done" =>
        /\ metrics.total_requests = attempts
        /\ metrics.successful_requests = accepted
        /\ metrics.failed_requests = failed



\* ------------------------------------------ claims on the streaming check
\* C15 as stated: the result of test_websocket has passed = TRUE iff, when
\* it is recorded, the listener has delivered a 'connected' message and the
\* HTTP submission returned 202, whatever else was or was not delivered;
\* a message delivered later changes no result.
C15_VerdictConnectedAndAccepted ==
    [][/\ (Len(results') = Len(results) + 1
             /\ Last(results').test_name = "websocket_communication") =>
                Last(results').passed =
                    ("connected" \in Range(ws.msgs)
                        /\ ws'.status = AcceptedStatus)
       /\ ws'.msgs # ws.msgs => results' = results
      ]_vars

WebsocketResults ==
    {i \in 1..Len(results) :
        results[i].test_name = "websocket_communication"}

\* C16 as stated: whatever the channel and the gateway do, test_websocket
\* ends after at most its settle and observation delays with the
\* subscription closed and exactly one 'websocket_communication' result.
C16_EndsClosedWithOneResult ==
    (cat = 5 /\ step = Steps(5) + 1) =>
        /\ ~ws.open
        /\ Cardinality(WebsocketResults) = 1
        /\ \A i \in WebsocketResults :
              results[i].duration_ms
                 <= WsSettleMs + RequestMs + WsObserveMs



\* ------------------------------------------------- claims on the reporter
\* The part of a name before its first underscore
Seg(name) ==
    LET us == {k \in 1..Len(name) : name[k] = "_"}
        n == IF us = {} THEN Len(name)
             ELSE (CHOOSE k \in us : \A l \in us : k <= l) - 1
    IN SubSeq(name, 1, n)

\* C17: generate_report files every result under the category that is the
\* part of its test_name before the first underscore (batch_event_0 and
\* batch_event_1 under one heading, health_check under health); the
\* categories are listed in order of first appearance and the results of a
\* category in insertion order.
C17_GroupedByFirstSegment ==
    report.kind = "text" =>
        LET n == Len(results)
            c(i) == Seg(results[i].test_name)
            first(i) == CHOOSE k \in 1..i :
                           /\ c(k) = c(i)
                           /\ \A l \in 1..(k - 1) : c(l) # c(i)
            blockOf(i) == Cardinality({c(k) : k \in 1..first(i)})
            posOf(i) == Cardinality({k \in 1..i : c(k) = c(i)})
        IN /\ Len(report.blocks) = Cardinality({c(k) : k \in 1..n})
           /\ \A i \in 1..n :
                 LET b == report.blocks[blockOf(i)]
                 IN /\ b.heading = UpperSeq(c(i))
                    /\ posOf(i) <= Len(b.lines)
                    /\ b.lines[posOf(i)].test_name = results[i].test_name
                    /\ b.lines[posOf(i)].status
                          = IF results[i].passed THEN "PASS" ELSE "FAIL"

C17_Witness ==
    /\ report.kind = "text" /\ Len(results) = 3
    /\ results[1].test_name = BatchEvent0
    /\ results[2].test_name = HealthCheck
    /\ results[3].test_name = BatchEvent1
    /\ Len(report.blocks) = 2
    /\ report.blocks[1].heading = <<"B", "A", "T", "C", "H">>
    /\ Len(report.blocks[1].lines) = 2
    /\ report.blocks[1].lines[2].test_name = BatchEvent1
    /\ report.blocks[2].heading = <<"H", "E", "A", "L", "T", "H">>

\* C18: in every report passed + failed = total = number of results, passed
\* is the number of passed results, every result name is listed under
\* exactly one category, and the totals and the passed counts of the
\* categories add up to total and passed.
C18_CountsAddUp ==
    report.kind = "text" =>
        LET bs == report.blocks
        IN /\ report.total_tests = Len(results)
           /\ report.passed_tests + report.failed_tests = report.total_tests
           /\ report.passed_tests
                 = Cardinality({i \in 1..Len(results) : results[i].passed})
           /\ SumSeq([k \in 1..Len(bs) |-> bs[k].total])
                 = report.total_tests
           /\ SumSeq([k \in 1..Len(bs) |-> bs[k].passed])
                 = report.passed_tests
           /\ \A k \in 1..Len(bs) : Len(bs[k].lines) = bs[k].total
           /\ \A i \in 1..Len(results) :
                 Cardinality({k \in 1..Len(bs) :
                     \E l \in 1..Len(bs[k].lines) :
                        bs[k].lines[l].test_name = results[i].test_name})
                    = 1

C18_Witness ==
    /\ report.kind = "text"
    /\ report.total_tests = 3 /\ report.passed_tests = 2
    /\ report.failed_tests = 1
    /\ Len(report.blocks) = 2
    /\ report.blocks[1].passed = 1 /\ report.blocks[1].total = 2

\* C19 as stated: two reports generated from the same collection and the
\* same load metrics are identical, whatever the clock did in between.
C19_ByteIdentical ==
    (report.kind = "text" /\ previous.kind = "text") => report = previous

\* C19, amended: a report generated from the same non-empty collection and
\* load metrics differs from the one before in nothing but its "Generated"
\* line, which gives the second of the wall clock at the call; the call
\* leaves the collection as it was.
C19_IdenticalButGenerated ==
    [][(previous' # previous \/ report' # report) =>
          /\ results' = results /\ metrics' = metrics
          /\ report'.kind = "text" => report'.generated = now \div 1000
          /\ (report'.kind = "text" /\ previous'.kind = "text") =>
                [report' EXCEPT !.generated = previous'.generated]
                   = previous'
      ]_vars

C19_Witness ==
    /\ report.kind = "text" /\ previous.kind = "text"
    /\ report # previous
    /\ report.generated = previous.generated + 1
    /\ report.blocks = previous.blocks

\* --------------------------------------- claims on the invalid-event catalogue
EventFields ==
    {"deviceId", "matchId", "tier", "peakDb", "durationMs", "ts",
     "chantDetected", "signalQuality", "detectionConfidence",
     "frequencyPeak", "backgroundNoise"}

Differing(a, b) == {f \in EventFields : a[f] # b[f]}

\* The field whose rule a label names
RuleField(reason) ==
    CASE reason = "Missing deviceId" -> "deviceId"
      [] reason = "Invalid deviceId format" -> "deviceId"
      [] reason = "Invalid tier" -> "tier"
      [] reason = "dB out of range" -> "peakDb"
      [] reason = "Negative duration" -> "durationMs"
      [] reason = "Signal quality out of range" -> "signalQuality"
      [] OTHER -> "none"

\* C20: each of the six variants generate_invalid_events returns differs from
\* the one valid base event in exactly one field, which is removed or holds a
\* value the event rules reject, and agrees with the base on every other
\* field; the six labels are pairwise distinct and each names the rule of the
\* field that was altered.
C20_OneFieldPerVariant ==
    gen.kind = "events" =>
        /\ ValidEvent(gen.base_event)
        /\ Len(gen.invalid_events) = 6
        /\ \A i \in 1..Len(gen.invalid_events) :
              LET v == gen.invalid_events[i] IN
              /\ Differing(v.event, gen.base_event) = {RuleField(v.reason)}
              /\ ~ValidEvent(v.event)
        /\ \A i, j \in 1..Len(gen.invalid_events) :
              i # j => gen.invalid_events[i].reason
                         # gen.invalid_events[j].reason

\* A catalogue was generated from a gold base event some time after the
\* start, and its third variant carries the tier "platinum"
C20_Witness ==
    /\ gen.kind = "events"
    /\ gen.base_event.tier = "gold" /\ gen.base_event.ts > 0
    /\ gen.invalid_events[3].event.tier = "platinum"
    /\ gen.invalid_events[1].event.deviceId = MissingField

\* ----------------------------------------------- claims on the event generator
\* C21: every event generate_valid_event(device_id) returns carries the
\* device id it was given, a tier among bronze, silver and gold, a peakDb
\* inside the range of its own tier (bronze [-30,-20], silver [-25,-15], gold
\* [-20,-10], here in 1/100 dB), durationMs in [2000, 30000], matchId in
\* [1, 99999] and signalQuality and detectionConfidence in [0, 1] (here in
\* 1/1000).
C21_FieldsInRange ==
    gen.kind = "event" =>
        LET e == gen.event IN
        /\ e.deviceId = gen.device_id
        /\ e.tier \in {"bronze", "silver", "gold"}
        /\ e.tier = "bronze" => e.peakDb >= -3000 /\ e.peakDb <= -2000
        /\ e.tier = "silver" => e.peakDb >= -2500 /\ e.peakDb <= -1500
        /\ e.tier = "gold" => e.peakDb >= -2000 /\ e.peakDb <= -1000
        /\ e.durationMs >= 2000 /\ e.durationMs <= 30000
        /\ e.matchId >= 1 /\ e.matchId <= 99999
        /\ e.signalQuality >= 0 /\ e.signalQuality <= 1000
        /\ e.detectionConfidence >= 0 /\ e.detectionConfidence <= 1000

\* A bronze event at the top of its range was generated for the unauthorized
\* device id
C21_Witness ==
    /\ gen.kind = "event"
    /\ gen.device_id = "UNAUTHORIZED1"
    /\ gen.event.tier = "bronze" /\ gen.event.peakDb = -2000
    /\ gen.event.matchId = 99999 /\ gen.event.durationMs = 30000

\* ---------------------------------------------- claims on the batch check
\* The step just taken was the status poll of test_batch_processing
BatchPolled ==
    /\ cat = 4 /\ step = BatchEventsCount + 2
    /\ cat' = cat /\ step' = step + 1

\* C22: when the status poll of test_batch_processing returns a non-200
\* status or raises, a failed TestResult named batch_processing_status is
\* appended to self.results.
C22_BatchPollFailureRecorded ==
    [][(BatchPolled /\ (Last(wire').out.kind = "exc"
                          \/ Last(wire').out.status # 200)) =>
          /\ Len(results') = Len(results) + 1
          /\ Last(results').test_name = "batch_processing_status"
          /\ ~Last(results').passed]_vars

C24_DeadlineBoundRunReturnsMetrics ==
    /\ \A u \in DOMAIN worker :
          worker[u].pc = "post" =>
              worker[u].request.start_request < worker[u].end_time
    /\ lpc \in {"done", "raised"} =>
          \A u \in DOMAIN worker : worker[u].pc = "collected"
    /\ (lpc = "done" /\ metrics # NoMetrics) \/ ENABLED NextLoad

\* C25: between two consecutive requests of one load worker lies the fixed
\* pause of 0.1 s, whatever the outcome of the earlier request: a worker that
\* begins a further request does so no sooner than SmallDelayMs after it
\* began the one before.
C25_PauseBetweenRequests ==
    [][\A u \in DOMAIN worker \cap DOMAIN worker' :
          (worker[u].generated >= 1
             /\ worker'[u].generated = worker[u].generated + 1) =>
              worker'[u].request.start_request
                  >= worker[u].request.start_request + SmallDelayMs]_vars

\* C26: run_load_test returns a LoadTestMetrics value, without raising, for
\* every number of successful samples of at least one; with exactly one
\* successful sample too.
C26_MetricsForEverySampleCount ==
    (lpc # "collect" /\ Len(lt_results) >= 1) =>
        /\ lpc # "raised"
        /\ metrics # NoMetrics
        /\ metrics.successful_requests = Len(lt_results)

\* ----------------------------------------- claims on the report of any run
\* C27: generate_report returns report text, without raising, for every
\* result collection, the empty collection with load metrics included.
C27_ReportForEveryCollection ==
    [][report' # report => report'.kind = "text"]_vars

\* ------------------------------------ claims on the batch and error checks
\* The step just taken was the (step - 1)-th submission of
\* test_batch_processing
BatchSubmitted ==
    /\ cat = 4 /\ step \in 2..(BatchEventsCount + 1)
    /\ cat' = cat /\ step' = step + 1

\* C29: test_batch_processing submits its five events, all with matchId
\* 99999, one after another, recording batch_event_0 .. batch_event_4 in
\* that order; it polls /status only after the fifth submission has
\* completed; and when the poll returns 200 it records
\* batch_processing_status with passed = True iff the reported batches.total
\* is greater than 0, however many submissions were accepted.
C29_BatchPollVerdict ==
    [][/\ BatchSubmitted =>
            /\ Len(wire') = step - 1
            /\ Last(wire').req.kind = "json"
            /\ Last(wire').req.event.matchId = 99999
            /\ Len(results') = Len(results) + 1
            /\ Last(results').test_name = BatchEventName(step - 2)
       /\ BatchPolled =>
            /\ Len(wire) = 5
            /\ Last(wire').req = Get("/status")
            /\ \A i \in 1..5 :
                  results[Len(results) - 5 + i].test_name
                      = BatchEventName(i - 1)
            /\ (Last(wire').out.kind = "resp"
                  /\ Last(wire').out.status = 200) =>
                  /\ Len(results') = Len(results) + 1
                  /\ Last(results').test_name = "batch_processing_status"
                  /\ Last(results').passed = (Last(wire').out.body = "ok")
      ]_vars

\* The step just taken was the step-th submission of test_error_handling
ErrorCaseSubmitted ==
    /\ cat = 7 /\ step \in 1..4
    /\ cat' = cat /\ step' = step + 1

\* The names test_error_handling records, in the order of its test_cases
ErrorCaseNames ==
    <<"error_handling_malformed_json", "error_handling_empty_payload",
      "error_handling_wrong_content_type",
      "error_handling_oversized_payload">>

\* C30: test_error_handling records exactly one result per malformed
\* submission, in the order malformed_json, empty_payload,
\* wrong_content_type, oversized_payload, each with passed = True iff the
\* response status is in 400..499; a transport failure records a failed
\* result for that case, and when the method returns all four cases have
\* been submitted and recorded, whatever their outcomes.
C30_OneResultPerMalformedCase ==
    [][/\ ErrorCaseSubmitted =>
            /\ Len(wire') = step
            /\ Last(wire').req.kind = "raw"
            /\ Len(results') = Len(results) + 1
            /\ SubSeq(results', 1, Len(results)) = results
            /\ Last(results').test_name = ErrorCaseNames[step]
            /\ Last(results').passed =
                  (/\ Last(wire').out.kind = "resp"
                   /\ Last(wire').out.status \in 400..499)
       /\ (cat = 7 /\ cat' = 8 /\ 7 \notin raised') =>
            /\ Len(wire) = 4 /\ Len(results) >= 4
            /\ \A i \in 1..4 :
                  /\ wire[i].req = ErrorCase(i).req
                  /\ results'[Len(results) - 4 + i].test_name
                        = ErrorCaseNames[i]
      ]_vars

\* The first malformed submission met a transport failure, its result is a
\* failed one, and the three other cases were submitted and recorded after it
C30_Witness ==
    /\ cat = 7 /\ step = 5
    /\ Len(wire) = 4 /\ wire[1].out.kind = "exc"
    /\ Len(results) >= 4
    /\ ~results[Len(results) - 3].passed
    /\ results[Len(results) - 3].test_name = "error_handling_malformed_json"
    /\ Last(results).test_name = "error_handling_oversized_payload"
    /\ Last(results).passed

\* ------------------------------------------------- claims on the quick test
\* C28: run_quick_test returns True only if the result each of its three
\* essential checks recorded has passed = True; when a check records a
\* failed result (the gateway unreachable, a refusal) it returns False and
\* the runner exits with a non-zero status.
C28_QuickPassNeedsPassedResults ==
    /\ quick.phase \in {"returned", "exited"} =>
          (quick.ret =>
              /\ Len(results) = EssentialTests
              /\ \A k \in 1..Len(results) : results[k].passed)
    /\ quick.phase = "exited" =>
          ((\E k \in 1..Len(results) : ~results[k].passed) =>
              quick.exit # 0)

====
